---- MODULE Spec2Model ----
(***************************************************************************)
(* dna_mnemonic: the up2bit codec (DNA sequence <-> capped integer), the   *)
(* word-list reader and the mnemonic encoder/decoder of                    *)
(* src/dna_mnemonic/dna_mnemonic.py.                                       *)
(*                                                                         *)
(* Python strings are sequences of one-character strings; Python's         *)
(* arbitrary-precision ints are TLA+ integers (every value of the model    *)
(* stays far below TLC's 32-bit limit).                                    *)
(***************************************************************************)
EXTENDS Integers, Sequences, FiniteSets, TLC

VARIABLES
    pc,             \* position of the driver: which call is running or has ended
    dna_sequence,   \* up2bit / encode_sequence: the argument
    u_pos,          \* up2bit: characters of reversed(dna_sequence) still to read
    result,         \* up2bit: the accumulator `result`
    u_out,          \* up2bit: "none", "running", "returned", "ValueError"
    up2bit_value,   \* up2bit_decode: the argument
    remaining_bits, \* up2bit_decode: `remaining_bits`
    twobit,         \* up2bit_decode: `twobit` (NoneInt while it is None)
    chars,          \* up2bit_decode: the list `result`, then the returned string
    d_out,          \* up2bit_decode: "none", "running", "returned", or the error
    file_handle,    \* read_wordlist: the lines of the file, in order
    index,          \* read_wordlist: lines read so far (the enumerate index)
    rw_wordlist,    \* read_wordlist: its local list `wordlist`
    r_out,          \* read_wordlist: "none", "running", "returned", or the error
    wordlist,       \* the caller's word list: what read_wordlist returned
    inverse_wordlist, \* the caller's dict from generate_inverse_wordlist
    mnemonic,       \* encode_sequence: the returned list of words
    e_out,          \* encode_sequence: "none", "returned", or the error
    m_arg,          \* decode_mnemonic: the argument `mnemonic`
    by_inverse,     \* decode_mnemonic: TRUE when inverse_wordlist= is passed
    wordlist_length, \* decode_mnemonic: `wordlist_length`
    values,         \* decode_mnemonic: the list `values`
    m_word,         \* decode_mnemonic: the word the "not in wordlist" error names
    decoded,        \* decode_mnemonic: the returned sequence
    m_out           \* decode_mnemonic: "none", "looked_up", "returned", or the error

codecVars == << dna_sequence, u_pos, result, u_out,
                up2bit_value, remaining_bits, twobit, chars, d_out >>
readVars == << file_handle, index, rw_wordlist, r_out, wordlist >>
mnemonicVars == << mnemonic, e_out >>
decodeMnemonicVars == << m_arg, by_inverse, wordlist_length, values, m_word,
                         decoded, m_out >>
listVars == << readVars, inverse_wordlist, mnemonicVars, decodeMnemonicVars >>

vars == << pc, codecVars, listVars >>

(***************************************************************************)
(* Bounds of the model.                                                    *)
(***************************************************************************)
MaxLen == 4       \* longest DNA sequence given to up2bit / encode_sequence
MaxValue == 300   \* largest integer given directly to up2bit_decode

(***************************************************************************)
(* Generic helpers over Python values.                                     *)
(***************************************************************************)
\* `twobit = None`: an integer no 2-bit code equals.
NoneInt == -1

\* All sequences over S of length 0..n.
SeqsUpTo(S, n) == UNION { [1..k -> S] : k \in 0..n }

\* tuple.index(x), 0-based; -1 stands for the ValueError of a missing element.
TupleIndex(tuple, x) ==
    IF \E i \in 1..Len(tuple) : tuple[i] = x
    THEN (CHOOSE i \in 1..Len(tuple) :
             tuple[i] = x /\ \A j \in 1..(i-1) : tuple[j] /= x) - 1
    ELSE -1

RECURSIVE Pow(_, _)
Pow(b, e) == IF e = 0 THEN 1 ELSE b * Pow(b, e - 1)

\* int.bit_length()
RECURSIVE BitLength(_)
BitLength(n) == IF n = 0 THEN 0 ELSE 1 + BitLength(n \div 2)

(***************************************************************************)
(* up2bit (lines 70-75).                                                   *)
(***************************************************************************)
\* The tuple ('A','C','T','G') of line 73: .index(char) is the 2-bit code.
EncodeBasesAlphabetical == << "A", "C", "G", "T" >>
EncodeBases == << "A", "C", "T", "G" >>

BaseSet == { "A", "C", "T", "G" }

\* Characters the caller may put in a sequence: the four bases and one other.
InputChars == BaseSet \cup { "N" }

\* result = 1 (line 71)
Up2bitSeed == 1

\* result = (result << 2) + twobit (line 74)
Up2bitShiftAddOneBit(acc, code) == acc * 2 + code
Up2bitShiftAdd(acc, code) == acc * 4 + code

\* The whole function: the loop over reversed(dna_sequence) from `pos` characters
\* left and accumulator `acc`; -1 stands for the ValueError of line 73.
RECURSIVE Up2bitFrom(_, _, _)
Up2bitFrom(s, pos, acc) ==
    IF pos = 0 THEN acc
    ELSE IF TupleIndex(EncodeBases, s[pos]) < 0 THEN -1
    ELSE Up2bitFrom(s, pos - 1, Up2bitShiftAdd(acc, TupleIndex(EncodeBases, s[pos])))

up2bit(s) == Up2bitFrom(s, Len(s), Up2bitSeed)

(***************************************************************************)
(* up2bit_decode (lines 88-105).                                           *)
(***************************************************************************)
\* total_bits%2 != 1 (line 91): TRUE when the call raises.
EvenBitsNonZeroOnly(total_bits) == total_bits % 2 /= 1 /\ total_bits /= 0
EvenBits(total_bits) == total_bits % 2 /= 1

\* The tuple ('A','C','T','G') of line 98: [twobit] is the character.
DecodeBases == << "A", "C", "T", "G" >>

\* mask = 0x03; twobit = remaining_bits & mask (lines 93, 97)
LowTwoBits(n) == n % 4

\* remaining_bits >> 2 (line 99)
ShiftRight3(n) == n \div 8
ShiftRight2(n) == n \div 4

\* result.pop(); "".join(result) (lines 104-105)
PopNothing(list) == list
PopCap(list) == SubSeq(list, 1, Len(list) - 1)

\* The whole function as a value: [out |-> "returned", seq |-> s] or
\* [out |-> the error, seq |-> << >>].
RECURSIVE DecodeLoop(_, _, _)
DecodeLoop(rem, last, list) ==
    IF rem /= 0
    THEN DecodeLoop(ShiftRight2(rem), LowTwoBits(rem),
                    Append(list, DecodeBases[LowTwoBits(rem) + 1]))
    ELSE IF last /= 1 THEN [out |-> "cap_error", seq |-> << >>]
    ELSE [out |-> "returned", seq |-> PopCap(list)]

up2bit_decode(v) ==
    IF EvenBits(BitLength(v)) THEN [out |-> "odd_bits_error", seq |-> << >>]
    ELSE DecodeLoop(v, NoneInt, << >>)

(***************************************************************************)
(* Characters and words.  The letters are a/b (A/B in upper case); "-" and *)
(* the dice digits are uncased; " ", "\t" and "\n" are white space.        *)
(***************************************************************************)
Whitespace == { " ", "\t", "\n" }

IsCased(c) == c \in { "a", "b", "A", "B" }

\* str.lower() / str.upper() on one character
LowerChar(c) == CASE c = "A" -> "a" [] c = "B" -> "b" [] OTHER -> c

UpperChar(c) == CASE c = "a" -> "A" [] c = "b" -> "B" [] OTHER -> c

\* word.lower() (lines 155, 304)
Lower(word) == [ i \in 1..Len(word) |-> LowerChar(word[i]) ]

Upper(word) == [ i \in 1..Len(word) |-> UpperChar(word[i]) ]

\* word.title() (lines 267, 286): a cased character is upper-cased when no cased
\* character precedes it directly, and lower-cased otherwise.
Title(word) ==
    [ i \in 1..Len(word) |->
        IF i = 1 \/ ~IsCased(word[i - 1])
        THEN UpperChar(word[i]) ELSE LowerChar(word[i]) ]

\* line.strip() (line 141)
RECURSIVE LStrip(_)
LStrip(line) ==
    IF line /= << >> /\ Head(line) \in Whitespace THEN LStrip(Tail(line)) ELSE line

RECURSIVE RStrip(_)
RStrip(line) ==
    IF line /= << >> /\ line[Len(line)] \in Whitespace
    THEN RStrip(SubSeq(line, 1, Len(line) - 1)) ELSE line

Strip(line) == RStrip(LStrip(line))

\* "\t" in line (line 142)
HasTab(line) == \E i \in 1..Len(line) : line[i] = "\t"

\* line.split("\t") (line 144): the list of the fields between the tabs.
RECURSIVE SplitTab(_)
SplitTab(line) ==
    IF ~HasTab(line) THEN << line >>
    ELSE LET i == CHOOSE i \in 1..Len(line) :
                     line[i] = "\t" /\ \A j \in 1..(i-1) : line[j] /= "\t"
         IN << SubSeq(line, 1, i - 1) >> \o SplitTab(SubSeq(line, i + 1, Len(line)))

(***************************************************************************)
(* decode_dice (lines 117-122).                                            *)
(***************************************************************************)
\* The tuple ('1','2','3','4','5','6') of line 120.
DiceChars == << "1", "2", "3", "4", "5", "6" >>

\* The loop over enumerate(reversed(digits)) from `position`; -1 stands for the
\* ValueError of line 120.
RECURSIVE DecodeDiceFrom(_, _, _)
DecodeDiceFrom(digits, position, acc) ==
    IF position = Len(digits) THEN acc
    ELSE LET hexit == TupleIndex(DiceChars, digits[Len(digits) - position]) IN
         IF hexit < 0 THEN -1
         ELSE DecodeDiceFrom(digits, position + 1, acc + hexit * Pow(6, position))

decode_dice(digits) == DecodeDiceFrom(digits, 0, 0)

(***************************************************************************)
(* is_full_base_x (lines 187-188) and math.floor(math.log(n, base)).       *)
(***************************************************************************)
RECURSIVE IsPowerOf(_, _)
IsPowerOf(n, base) ==
    IF n = 1 THEN TRUE
    ELSE IF n < 1 \/ n % base /= 0 THEN FALSE
    ELSE IsPowerOf(n \div base, base)

\* math.log(number, base) is log(number)/log(base) in IEEE doubles.  For the
\* bases 2 and 6 and every number in 1..70000 its fractional part is zero exactly
\* for the powers of the base, except these powers of 6, whose quotient is not an
\* integer (math.log(216, 6) = 3.0000000000000004).
InexactLog6 == { 216, 46656 }

\* math.modf(math.log(number, base))[0]==0, for number >= 1 (math.log(0, base)
\* raises ValueError: the callers test for 0 first).
is_full_base_x(number, base) ==
    IsPowerOf(number, base) /\ ~(base = 6 /\ number \in InexactLog6)

\* math.floor(math.log(n, base)) for n >= 1: the doubles round to the exact
\* integer logarithm for every n in 1..70000.
RECURSIVE FloorLog(_, _)
FloorLog(n, base) == IF n < base THEN 0 ELSE 1 + FloorLog(n \div base, base)

(***************************************************************************)
(* convert_base_x (lines 202-207).                                         *)
(***************************************************************************)
RECURSIVE convert_base_x(_, _)
convert_base_x(num, base) ==
    IF num = 0 THEN << >>
    ELSE << num % base >> \o convert_base_x(num \div base, base)

\* sum(digit*(base**pos) for pos, digit in enumerate(digits)) (lines 265, 330)
RECURSIVE DigitSum(_, _)
DigitSum(digits, base) ==
    IF digits = << >> THEN 0
    ELSE Head(digits) + base * DigitSum(Tail(digits), base)

Zeros(n) == [ i \in 1..n |-> 0 ]

(***************************************************************************)
(* read_wordlist (lines 138-165), one line at a time.                      *)
(***************************************************************************)
\* The entry None of the list under construction: no word is this sequence.
NoneWord == << "None" >>

\* Lines 141-150 for the line at 0-based position `pos`: the index and the word,
\* or err = TRUE for the ValueError of the unpacking (line 144) or of decode_dice.
ParseLine(raw, pos) ==
    LET line == Strip(raw) IN
    IF HasTab(line)
    THEN LET parts == SplitTab(line) IN
         IF Len(parts) /= 2 THEN [ err |-> TRUE, word_index |-> 0, word |-> << >> ]
         ELSE IF decode_dice(parts[1]) < 0
              THEN [ err |-> TRUE, word_index |-> 0, word |-> << >> ]
              ELSE [ err |-> FALSE, word_index |-> decode_dice(parts[1]),
                     word |-> parts[2] ]
    ELSE [ err |-> FALSE, word_index |-> pos, word |-> line ]

\* while len(wordlist)<=word_index: wordlist.append(None) (lines 151-152)
Grow(list, word_index) ==
    IF Len(list) <= word_index
    THEN list \o [ i \in 1..(word_index + 1 - Len(list)) |-> NoneWord ]
    ELSE list

\* wordlist[word_index] is not None (line 153), on the grown list
NeverTaken(list, word_index) == FALSE
IsTaken(list, word_index) == list[word_index + 1] /= NoneWord

\* Lines 157-159: some position holds None.
HasMissing(list) == \E i \in 1..Len(list) : list[i] = NoneWord

\* Lines 161-164: TRUE when the size is refused.
SizeRefused(total_words) ==
    ~is_full_base_x(total_words, 2) /\ ~is_full_base_x(total_words, 6)

(***************************************************************************)
(* generate_inverse_wordlist (lines 167-168): the dict comprehension keeps, *)
(* for a word that occurs more than once, the value of its last occurrence. *)
(***************************************************************************)
LastIndexOf(list, word) ==
    (CHOOSE i \in 1..Len(list) :
        list[i] = word /\ \A j \in (i+1)..Len(list) : list[j] /= word) - 1

generate_inverse_wordlist(list) ==
    [ word \in { list[i] : i \in 1..Len(list) } |-> LastIndexOf(list, word) ]

(***************************************************************************)
(* encode_sequence (lines 231-289).                                        *)
(***************************************************************************)
\* Lines 256-257: zeros appended until the length is a multiple of the block size.
PadDigitsFront(digits, blocksize) ==
    Zeros((blocksize - (Len(digits) % blocksize)) % blocksize) \o digits
PadDigits(digits, blocksize) ==
    digits \o Zeros((blocksize - (Len(digits) % blocksize)) % blocksize)

\* Lines 262-267: one word per block of `blocksize` hexal digits.
RECURSIVE HexalWords(_, _, _)
HexalWords(digits, blocksize, list) ==
    IF digits = << >> THEN << >>
    ELSE << Title(list[DigitSum(SubSeq(digits, 1, blocksize), 6) + 1]) >>
         \o HexalWords(SubSeq(digits, blocksize + 1, Len(digits)), blocksize, list)

\* Lines 282-286: one word per chunk of `blocksize` bits, lowest chunk first.
RECURSIVE BinaryWords(_, _, _)
BinaryWords(rem, blocksize, list) ==
    IF rem = 0 THEN << >>
    ELSE << Title(list[(rem % Pow(2, blocksize)) + 1]) >>
         \o BinaryWords(rem \div Pow(2, blocksize), blocksize, list)

\* The whole function for a non-empty word list: [out |-> "returned", words |-> m]
\* or [out |-> the exception, words |-> << >>].
encode_sequence(s, list) ==
    LET v == up2bit(s)
        n == Len(list)
    IN  IF v < 0 THEN [ out |-> "ValueError", words |-> << >> ]
        ELSE IF is_full_base_x(n, 6)
        THEN LET blocksize == FloorLog(n, 6) IN
             \* len(as_hexal)%hexal_blocksize with a block size of 0 (line 256)
             IF blocksize = 0 THEN [ out |-> "ZeroDivisionError", words |-> << >> ]
             ELSE [ out |-> "returned",
                    words |-> HexalWords(PadDigits(convert_base_x(v, 6), blocksize),
                                         blocksize, list) ]
        ELSE [ out |-> "returned", words |-> BinaryWords(v, FloorLog(n, 2), list) ]

(***************************************************************************)
(* decode_mnemonic (lines 291-342).                                        *)
(***************************************************************************)
\* mnemonic = list(word.lower() for word in mnemonic) (line 304)
LowerNone(words) == words
LowerAll(words) == [ i \in 1..Len(words) |-> Lower(words[i]) ]

\* Lines 306-307: whether the dict holds every word, and the first word it does
\* not hold (the one the exception names).
AllKnown(words, inverse) == \A i \in 1..Len(words) : words[i] \in DOMAIN inverse

FirstUnknown(words, inverse) ==
    words[CHOOSE i \in 1..Len(words) :
              /\ words[i] \notin DOMAIN inverse
              /\ \A j \in 1..(i-1) : words[j] \in DOMAIN inverse]

\* Line 324: a block padded with zeros up to the block size (none when it is longer).
PadBlock(block, blocksize) ==
    IF Len(block) < blocksize THEN block \o Zeros(blocksize - Len(block)) ELSE block

\* Lines 321-327: the padded hexal digits of all values, chained.
RECURSIVE HexalDigits(_, _)
HexalDigits(vals, blocksize) ==
    IF vals = << >> THEN << >>
    ELSE PadBlock(convert_base_x(Head(vals), 6), blocksize)
         \o HexalDigits(Tail(vals), blocksize)

\* Line 338: sum(value<<binary_blocksize*chunk for chunk, value in enumerate(values))
RECURSIVE BinarySum(_, _)
BinarySum(vals, blocksize) ==
    IF vals = << >> THEN 0
    ELSE Head(vals) + Pow(2, blocksize) * BinarySum(Tail(vals), blocksize)

\* Lines 317-338: the up2bit value of the list `values`, for wordlist_length >= 1.
MnemonicValue(vals, length) ==
    IF is_full_base_x(length, 6)
    THEN DigitSum(HexalDigits(vals, FloorLog(length, 6)), 6)
    ELSE BinarySum(vals, FloorLog(length, 2))

(***************************************************************************)
(* The codec run step by step: one call of up2bit, one of up2bit_decode,   *)
(* or up2bit_decode applied to what up2bit returned.                       *)
(***************************************************************************)
Init ==
    /\ pc = "idle"
    /\ dna_sequence = << >>
    /\ u_pos = 0
    /\ result = 0
    /\ u_out = "none"
    /\ up2bit_value = 0
    /\ remaining_bits = 0
    /\ twobit = NoneInt
    /\ chars = << >>
    /\ d_out = "none"
    /\ file_handle = << >>
    /\ index = 0
    /\ rw_wordlist = << >>
    /\ r_out = "none"
    /\ wordlist = << >>
    /\ inverse_wordlist = << >>
    /\ mnemonic = << >>
    /\ e_out = "none"
    /\ m_arg = << >>
    /\ by_inverse = FALSE
    /\ wordlist_length = 0
    /\ values = << >>
    /\ m_word = << >>
    /\ decoded = << >>
    /\ m_out = "none"

decodeVars == << up2bit_value, remaining_bits, twobit, chars, d_out >>
encodeVars == << dna_sequence, u_pos, result, u_out >>

\* up2bit(s) is called: line 71.
Up2bitCall ==
    /\ pc = "idle"
    /\ \E s \in SeqsUpTo(InputChars, MaxLen) :
          /\ dna_sequence' = s
          /\ u_pos' = Len(s)
    /\ result' = Up2bitSeed
    /\ u_out' = "running"
    /\ pc' = "up2bit"
    /\ UNCHANGED << decodeVars, listVars >>

\* One iteration of the loop of lines 72-74, on the next character from the end.
Up2bitStep ==
    /\ pc = "up2bit"
    /\ u_pos > 0
    /\ LET code == TupleIndex(EncodeBases, dna_sequence[u_pos]) IN
          IF code < 0
          THEN /\ u_out' = "ValueError"
               /\ pc' = "done"
               /\ UNCHANGED << result, u_pos >>
          ELSE /\ result' = Up2bitShiftAdd(result, code)
               /\ u_pos' = u_pos - 1
               /\ UNCHANGED << u_out, pc >>
    /\ UNCHANGED << dna_sequence, decodeVars, listVars >>

\* return result (line 75)
Up2bitReturn ==
    /\ pc = "up2bit"
    /\ u_pos = 0
    /\ u_out' = "returned"
    /\ pc' = "up2bit_returned"
    /\ UNCHANGED << dna_sequence, u_pos, result, decodeVars, listVars >>

\* Lines 89-95 for the argument v: the bit-length check, then the loop's variables.
DecodeEnter(v) ==
    /\ up2bit_value' = v
    /\ chars' = << >>
    /\ twobit' = NoneInt
    /\ IF EvenBits(BitLength(v))
       THEN /\ d_out' = "odd_bits_error"
            /\ remaining_bits' = 0
            /\ pc' = "done"
       ELSE /\ d_out' = "running"
            /\ remaining_bits' = v
            /\ pc' = "up2bit_decode"
    /\ UNCHANGED << encodeVars, listVars >>

\* up2bit_decode(v) is called on an integer of the caller's choice.
DecodeCallValue ==
    /\ pc = "idle"
    /\ \E v \in 0..MaxValue : DecodeEnter(v)

\* up2bit_decode is called on the value up2bit returned.
DecodeCallResult ==
    /\ pc = "up2bit_returned"
    /\ DecodeEnter(result)

\* One iteration of the loop of lines 96-100.
DecodeStep ==
    /\ pc = "up2bit_decode"
    /\ remaining_bits /= 0
    /\ twobit' = LowTwoBits(remaining_bits)
    /\ chars' = Append(chars, DecodeBases[LowTwoBits(remaining_bits) + 1])
    /\ remaining_bits' = ShiftRight2(remaining_bits)
    /\ UNCHANGED << pc, up2bit_value, d_out, encodeVars, listVars >>

\* Lines 101-105: the cap check, then the cap is popped and the string returned.
DecodeFinish ==
    /\ pc = "up2bit_decode"
    /\ remaining_bits = 0
    /\ IF twobit /= 1
       THEN /\ d_out' = "cap_error"
            /\ chars' = << >>
       ELSE /\ d_out' = "returned"
            /\ chars' = PopCap(chars)
    /\ pc' = "done"
    /\ UNCHANGED << up2bit_value, remaining_bits, twobit, encodeVars, listVars >>

NextCodec ==
    \/ Up2bitCall
    \/ Up2bitStep
    \/ Up2bitReturn
    \/ DecodeCallValue
    \/ DecodeCallResult
    \/ DecodeStep
    \/ DecodeFinish

SpecCodec == Init /\ [][NextCodec]_vars

(***************************************************************************)
(* Word-list files given to read_wordlist.  A file is built from a list of *)
(* entries (index, word), written as flat lines "word\n" or as Diceware    *)
(* lines "digits\tword\n", whole or with one edit.                         *)
(***************************************************************************)
MaxFlat == 9    \* most lines of a flat file
MaxDice == 2    \* most dice digits of a Diceware file (6^MaxDice lines)
MaxEdit == 2    \* an edit touches lines 1..MaxEdit or the last line
MaxSeq == 3     \* longest DNA sequence given to encode_sequence
MaxWords == 2   \* most words of a hand-written mnemonic given to decode_mnemonic

Letters == << "a", "b" >>

\* The i-th word (0-based) of the files: i in binary with the letters a and b,
\* hyphenated after the first letter when i % 4 = 3; every other word is written
\* in the file with capitals.
RECURSIVE LetterWord(_)
LetterWord(i) ==
    IF i < 2 THEN << Letters[i + 1] >>
    ELSE LetterWord(i \div 2) \o << Letters[(i % 2) + 1] >>

FileWord(i) ==
    LET w == LetterWord(i)
        h == IF i % 4 = 3 THEN << Head(w), "-" >> \o Tail(w) ELSE w
    IN  IF i % 2 = 1 THEN Title(h) ELSE h

Entries(n) == [ i \in 1..n |-> [ idx |-> i - 1, word |-> FileWord(i - 1) ] ]

\* The k dice characters of idx, most significant first.
DiceDigits(idx, k) ==
    [ p \in 1..k |-> DiceChars[((idx \div Pow(6, k - p)) % 6) + 1] ]

FlatLines(entries) ==
    [ i \in 1..Len(entries) |-> entries[i].word \o << "\n" >> ]

DiceLines(entries, k) ==
    [ i \in 1..Len(entries) |->
        DiceDigits(entries[i].idx, k) \o << "\t" >> \o entries[i].word \o << "\n" >> ]

Reversed(seq) == [ i \in 1..Len(seq) |-> seq[Len(seq) + 1 - i] ]

DropAt(seq, j) == SubSeq(seq, 1, j - 1) \o SubSeq(seq, j + 1, Len(seq))

EditLines(n) == { j \in 1..n : j <= MaxEdit \/ j = n }

\* One entry list and its edits: a line dropped, a line given the index of
\* another, a line given the word of another (in upper case), a line added that
\* repeats the index of another.
Edited(entries) ==
    LET n == Len(entries) IN
    { entries, Reversed(entries) }
    \cup { DropAt(entries, j) : j \in EditLines(n) }
    \cup { Append(entries, [ idx |-> entries[i].idx, word |-> FileWord(n) ]) :
               i \in EditLines(n) }
    \cup { [ entries EXCEPT ![j].idx = entries[i].idx ] :
               i \in EditLines(n), j \in EditLines(n) }
    \cup { [ entries EXCEPT ![j].word = Upper(entries[i].word) ] :
               i \in EditLines(n), j \in EditLines(n) }

\* Lines that are not of either format, and lines with white space around them.
OddLines ==
    { << "1", "\t", "a", "\t", "b", "\n" >>,      \* two tabs
      << "7", "\t", "a", "\n" >>,                \* not a dice digit
      << "\t", "a", "\n" >>,                     \* strip() leaves "a"
      << " ", "2", "\t", "b", " ", "\n" >>,      \* index 1, word "b"
      << "\n" >> }                               \* the empty word

Files ==
    UNION { { FlatLines(e) : e \in Edited(Entries(n)) } : n \in 0..MaxFlat }
    \cup UNION { { DiceLines(e, k) : e \in Edited(Entries(Pow(6, k))) } : k \in 1..MaxDice }
    \cup { FlatLines(Entries(1)) \o << odd >> : odd \in OddLines }
    \cup { DiceLines(Entries(1), 1) \o << odd >> : odd \in OddLines }

\* Words a caller may write in a mnemonic by hand: two words of the list in
\* other letter cases, and two that the files never hold.
HandWords(list) ==
    { Title(list[1]), Upper(list[Len(list)]),
      << "b", "-", "-", "A" >>, << "-" >> }

(***************************************************************************)
(* The word-list run: a file is read; the inverse is generated; a sequence *)
(* is encoded; a mnemonic is decoded.                                      *)
(***************************************************************************)
\* read_wordlist(file_handle) is called: line 139.
ReadCall ==
    /\ pc = "idle"
    /\ \E f \in Files : file_handle' = f
    /\ index' = 0
    /\ rw_wordlist' = << >>
    /\ r_out' = "running"
    /\ pc' = "read_wordlist"
    /\ UNCHANGED << codecVars, wordlist, inverse_wordlist, mnemonicVars,
                    decodeMnemonicVars >>

\* One iteration of the loop of lines 140-155.
ReadLine ==
    /\ pc = "read_wordlist"
    /\ index < Len(file_handle)
    /\ LET parsed == ParseLine(file_handle[index + 1], index)
           grown == Grow(rw_wordlist, parsed.word_index)
       IN  IF parsed.err
           THEN /\ r_out' = "ValueError"
                /\ pc' = "done"
                /\ UNCHANGED << index, rw_wordlist >>
           ELSE IF IsTaken(grown, parsed.word_index)
           THEN /\ r_out' = "duplicate_index"
                /\ pc' = "done"
                /\ rw_wordlist' = grown
                /\ UNCHANGED index
           ELSE /\ rw_wordlist' =
                       [ grown EXCEPT ![parsed.word_index + 1] = Lower(parsed.word) ]
                /\ index' = index + 1
                /\ UNCHANGED << r_out, pc >>
    /\ UNCHANGED << codecVars, file_handle, wordlist, inverse_wordlist,
                    mnemonicVars, decodeMnemonicVars >>

\* Lines 157-165: the checks after the loop, then the list is returned.
ReadFinish ==
    /\ pc = "read_wordlist"
    /\ index = Len(file_handle)
    /\ IF HasMissing(rw_wordlist)
       THEN r_out' = "missing_index" /\ pc' = "done" /\ UNCHANGED wordlist
       ELSE IF Len(rw_wordlist) = 0
       THEN r_out' = "ValueError" /\ pc' = "done" /\ UNCHANGED wordlist
       ELSE IF SizeRefused(Len(rw_wordlist))
       THEN r_out' = "invalid_size" /\ pc' = "done" /\ UNCHANGED wordlist
       ELSE r_out' = "returned" /\ pc' = "loaded" /\ wordlist' = rw_wordlist
    /\ UNCHANGED << codecVars, file_handle, index, rw_wordlist, inverse_wordlist,
                    mnemonicVars, decodeMnemonicVars >>

\* inverse_wordlist = generate_inverse_wordlist(wordlist)
GenerateInverse ==
    /\ pc = "loaded"
    /\ inverse_wordlist' = generate_inverse_wordlist(wordlist)
    /\ pc' = "ready"
    /\ UNCHANGED << codecVars, readVars, mnemonicVars, decodeMnemonicVars >>

\* mnemonic = encode_sequence(dna_sequence, wordlist)
EncodeSequence ==
    /\ pc = "ready"
    /\ \E s \in SeqsUpTo(InputChars, MaxSeq) :
          /\ dna_sequence' = s
          /\ mnemonic' = encode_sequence(s, wordlist).words
          /\ e_out' = encode_sequence(s, wordlist).out
          /\ pc' = IF encode_sequence(s, wordlist).out = "returned"
                   THEN "encoded" ELSE "done"
    /\ UNCHANGED << u_pos, result, u_out, decodeVars, readVars, inverse_wordlist,
                    decodeMnemonicVars >>

\* Lines 295-309 of decode_mnemonic for the argument m: the length of the list,
\* the words in lower case, the check that the dict holds each, the values.
DecodeMnemonicEnter(m, inv) ==
    /\ m_arg' = m
    /\ by_inverse' = inv
    /\ wordlist_length' =
           IF inv THEN Cardinality(DOMAIN inverse_wordlist) ELSE Len(wordlist)
    /\ LET lowered == LowerAll(m)
           dict == IF inv THEN inverse_wordlist
                   ELSE generate_inverse_wordlist(wordlist)
       IN  IF AllKnown(lowered, dict)
           THEN /\ values' = [ i \in 1..Len(m) |-> dict[lowered[i]] ]
                /\ m_word' = << >>
                /\ m_out' = "looked_up"
                /\ pc' = "decode_mnemonic"
           ELSE /\ values' = << >>
                /\ m_word' = FirstUnknown(lowered, dict)
                /\ m_out' = "unknown_word"
                /\ pc' = "done"
    /\ decoded' = << >>
    /\ UNCHANGED << codecVars, readVars, inverse_wordlist, mnemonicVars >>

\* decode_mnemonic is called on the mnemonic encode_sequence returned.
DecodeEncoded ==
    /\ pc = "encoded"
    /\ \E inv \in BOOLEAN : DecodeMnemonicEnter(mnemonic, inv)

\* decode_mnemonic is called on words written by hand.
DecodeHandWritten ==
    /\ pc = "ready"
    /\ \E m \in SeqsUpTo(HandWords(wordlist), MaxWords), inv \in BOOLEAN :
          DecodeMnemonicEnter(m, inv)

\* Lines 317-342: the up2bit value of the values, then up2bit_decode.
DecodeMnemonicFinish ==
    /\ pc = "decode_mnemonic"
    /\ LET got == up2bit_decode(MnemonicValue(values, wordlist_length)) IN
          /\ m_out' = got.out
          /\ decoded' = got.seq
    /\ pc' = "done"
    /\ UNCHANGED << codecVars, readVars, inverse_wordlist, mnemonicVars,
                    m_arg, by_inverse, wordlist_length, values, m_word >>

Next ==
    \/ ReadCall
    \/ ReadLine
    \/ ReadFinish
    \/ GenerateInverse
    \/ EncodeSequence
    \/ DecodeEncoded
    \/ DecodeHandWritten
    \/ DecodeMnemonicFinish

Spec == Init /\ [][Next]_vars

(***************************************************************************)
(* Properties of the codec, checked under SpecCodec.                       *)
(***************************************************************************)
\* up2bit has returned: the call ran to line 75 on a sequence of bases.
Up2bitReturned == u_out = "returned"

\* up2bit_decode has ended, by a return or by a raise.
DecodeEnded == pc = "done" /\ d_out \in { "returned", "odd_bits_error", "cap_error" }

\* The 2-bit code the documentation gives each base, written out.
DocCode(char) ==
    CASE char = "A" -> 0 [] char = "C" -> 1 [] char = "T" -> 2 [] char = "G" -> 3

RECURSIVE DocValue(_, _)
DocValue(s, i) ==
    IF i > Len(s) THEN Pow(4, Len(s))
    ELSE DocCode(s[i]) * Pow(4, i - 1) + DocValue(s, i + 1)

\* C2: up2bit_decode applied to what up2bit returned for a sequence s of bases
\* returns (raises nothing) and returns exactly s: the same bases in the same
\* order, without the cap entry; the empty sequence included.
C2_Up2bitRoundTrip ==
    (Up2bitReturned /\ DecodeEnded /\ up2bit_value = result)
        => (d_out = "returned" /\ chars = dna_sequence)

C2_Witness ==
    /\ Up2bitReturned /\ DecodeEnded /\ up2bit_value = result
    /\ dna_sequence = << "G", "A", "T" >>
    /\ chars = << "G", "A", "T" >>

\* C3: up2bit(s) = 4^n + sum of code(s[i]) * 4^i over the 0-based positions i, with
\* A=0, C=1, T=2, G=3: the left-most base is in the two least-significant bits and
\* the cap 01 sits directly above the last base; up2bit("") = 1, up2bit("ACTG") = 484.
C3_Up2bitValue ==
    Up2bitReturned =>
        /\ result = DocValue(dna_sequence, 1)
        /\ result = up2bit(dna_sequence)
        /\ (dna_sequence = << >> => result = 1)
        /\ (dna_sequence = << "A", "C", "T", "G" >> => result = 484)
        /\ (dna_sequence /= << >> => result % 4 = DocCode(dna_sequence[1]))

C3_Witness ==
    Up2bitReturned /\ dna_sequence = << "A", "C", "T", "G" >> /\ result = 484

\* C5: for every non-negative integer of even bit-length, 0 included,
\* up2bit_decode raises at the bit-length check of lines 91-92, before any bits
\* are extracted, and returns no sequence.
C5_EvenBitLengthRejected ==
    (DecodeEnded /\ BitLength(up2bit_value) % 2 = 0)
        => (d_out = "odd_bits_error" /\ chars = << >> /\ twobit = NoneInt)

C5_Witness ==
    DecodeEnded /\ up2bit_value = 0 /\ d_out = "odd_bits_error"

\* C9: in the loop of up2bit, after k bases have been processed the accumulator
\* has bit-length exactly 2k+1 and its top 2-bit group (value >> 2k) is 01; so
\* does the value up2bit returns.
C9_CapInvariant ==
    u_out \in { "running", "returned" } =>
        LET k == Len(dna_sequence) - u_pos IN
            /\ BitLength(result) = 2 * k + 1
            /\ result \div Pow(4, k) = 1
            /\ BitLength(result) % 2 = 1

C9_Witness ==
    /\ pc = "up2bit" /\ u_out = "running"
    /\ Len(dna_sequence) - u_pos = 2 /\ u_pos > 0
    /\ result > 16

\* C10: an integer that passes the odd-bit-length check always ends the loop of
\* up2bit_decode with the last extracted code equal to 1, so the call returns;
\* the "Expecting a cap of 0b01" error of line 102 is never raised.
C10_CapCheckUnreachable ==
    /\ d_out /= "cap_error"
    /\ (DecodeEnded /\ BitLength(up2bit_value) % 2 = 1)
           => (d_out = "returned" /\ twobit = 1)
    /\ (pc = "up2bit_decode" /\ remaining_bits = 0) => twobit = 1

C10_Witness ==
    /\ DecodeEnded /\ d_out = "returned" /\ twobit = 1
    /\ up2bit_value = 21 /\ u_out = "none"

(***************************************************************************)
(* Properties of the word-list run, checked under Spec.                    *)
(***************************************************************************)
\* read_wordlist has just ended: it returned its list, or it raised.
ReadEnded ==
    \/ pc = "loaded" /\ r_out = "returned"
    \/ pc = "done" /\ r_out \notin { "none", "running", "returned" }

OverBases(s) == \A i \in 1..Len(s) : s[i] \in BaseSet

\* The Diceware code value of a string of dice digits, written out: the digit
\* characters '1'..'6' stand for 0..5, most significant first.
DocDiceDigit(c) ==
    CASE c = "1" -> 0 [] c = "2" -> 1 [] c = "3" -> 2
      [] c = "4" -> 3 [] c = "5" -> 4 [] c = "6" -> 5

DocDiceValue(digits) ==
    LET n == Len(digits)
        term[i \in 0..n] ==
            IF i = 0 THEN 0 ELSE term[i - 1] * 6 + DocDiceDigit(digits[i])
    IN  term[n]

\* A file every line of which is a word, or dice digits, one tab and a word.
WellFormed(file) ==
    \A p \in 1..Len(file) :
        LET line == Strip(file[p]) IN
        HasTab(line) =>
            /\ Len(SplitTab(line)) = 2
            /\ \A i \in 1..Len(SplitTab(line)[1]) :
                   SplitTab(line)[1][i] \in { "1", "2", "3", "4", "5", "6" }

\* The index and the word of line p (1-based) of a well-formed file.
DocIndex(file, p) ==
    LET line == Strip(file[p]) IN
    IF HasTab(line) THEN DocDiceValue(SplitTab(line)[1]) ELSE p - 1

DocWord(file, p) ==
    LET line == Strip(file[p]) IN
    IF HasTab(line) THEN SplitTab(line)[2] ELSE line

\* C1: for every word list read_wordlist accepts and every sequence s of bases,
\* encode_sequence returns, and decode_mnemonic on its result with the generated
\* inverse word list returns exactly s.
C1_MnemonicRoundTrip ==
    /\ (e_out /= "none" /\ OverBases(dna_sequence)) => e_out = "returned"
    /\ (pc = "done" /\ e_out = "returned" /\ m_out /= "none"
            /\ by_inverse /\ m_arg = mnemonic)
           => (m_out = "returned" /\ decoded = dna_sequence)

\* C4: read_wordlist raises and returns no list when an index is assigned twice,
\* when an index in [0, max index seen] is unassigned, or when the word count is
\* neither a power of 2 nor of 6; a list it returns has one word at each index
\* 0..N-1, the lower-cased word of the one line with that index, N a power of 2
\* or 6.  The index of a line is its dice value, or its position without a tab.
C4_WordlistValidation ==
    (ReadEnded /\ WellFormed(file_handle)) =>
        LET lines == 1..Len(file_handle)
            idx == [ p \in lines |-> DocIndex(file_handle, p) ]
            total == IF lines = {} THEN 0
                     ELSE 1 + CHOOSE m \in { idx[p] : p \in lines } :
                                  \A q \in lines : idx[q] <= m
            dup == \E p, q \in lines : p /= q /\ idx[p] = idx[q]
            gap == \E i \in 0..(total - 1) : \A p \in lines : idx[p] /= i
            badsize == ~IsPowerOf(total, 2) /\ ~IsPowerOf(total, 6)
        IN  /\ (dup \/ gap \/ badsize)
                   => (r_out /= "returned" /\ pc = "done" /\ wordlist = << >>)
            /\ r_out = "returned" =>
                   /\ Len(wordlist) = total
                   /\ total = Len(file_handle)
                   /\ IsPowerOf(total, 2) \/ IsPowerOf(total, 6)
                   /\ \A i \in 0..(total - 1) :
                          /\ Cardinality({ p \in lines : idx[p] = i }) = 1
                          /\ \A p \in lines : idx[p] = i =>
                                 wordlist[i + 1] = Lower(DocWord(file_handle, p))

C4_Witness ==
    /\ r_out = "duplicate_index" /\ pc = "done" /\ wordlist = << >>
    /\ Len(file_handle) = 7
    /\ HasTab(Strip(file_handle[7]))
    /\ index = 6

\* C6: for every word list read_wordlist returns, of size N, the inverse word
\* list has exactly N entries and maps wordlist[i] to i for every i in 0..N-1.
C6_InverseBijection ==
    pc = "ready" =>
        /\ Cardinality(DOMAIN inverse_wordlist) = Len(wordlist)
        /\ \A i \in 1..Len(wordlist) : inverse_wordlist[wordlist[i]] = i - 1

\* C7: decode_mnemonic lower-cases every word; if a word is then absent from the
\* inverse word list the call raises, naming the first such word, with no value
\* computed and no sequence returned; when every word is present, in whatever
\* letter case, that error is not raised.
C7_UnknownWord ==
    m_out /= "none" =>
        LET known == { wordlist[i] : i \in 1..Len(wordlist) }
            absent == { i \in 1..Len(m_arg) : Lower(m_arg[i]) \notin known }
        IN  IF absent /= {}
            THEN /\ m_out = "unknown_word"
                 /\ pc = "done"
                 /\ m_word = Lower(m_arg[CHOOSE i \in absent : \A j \in absent : i <= j])
                 /\ values = << >>
                 /\ decoded = << >>
            ELSE /\ m_out /= "unknown_word"
                 /\ Len(values) = Len(m_arg)

C7_Witness ==
    /\ m_out = "unknown_word"
    /\ Len(m_arg) = 2
    /\ m_arg[1] = Upper(wordlist[Len(wordlist)])
    /\ m_arg[1] /= wordlist[Len(wordlist)]
    /\ m_word = << "b", "-", "-", "a" >>

\* C8: for an accepted word list of size N >= 2 and a sequence s with
\* v = up2bit(s), encode_sequence returns exactly k words, k the number of base-N
\* digits of v, and word i (0-based) is the title-cased
\* wordlist[floor(v / N^i) mod N]: least-significant block first, and the index
\* of the last word is never 0.
C8_WordOrder ==
    (e_out = "returned" /\ Len(wordlist) >= 2) =>
        LET n == Len(wordlist)
            v == DocValue(dna_sequence, 1)
            k == Len(mnemonic)
        IN  /\ k >= 1
            /\ Pow(n, k - 1) <= v
            /\ v < Pow(n, k)
            /\ \A i \in 0..(k - 1) :
                   mnemonic[i + 1] = Title(wordlist[((v \div Pow(n, i)) % n) + 1])
            /\ (v \div Pow(n, k - 1)) % n /= 0

C8_Witness ==
    /\ e_out = "returned"
    /\ Len(wordlist) = 36
    /\ Len(mnemonic) = 2
    /\ dna_sequence = << "G", "T", "C" >>

====
